---- MODULE Spec2Model ----
(***************************************************************************)
(* Model of the Jicoo -> LINE webhook notifier,                            *)
(* src/app/api/webhook/route.ts: the POST request handler, the dispatcher  *)
(* processAndSendNotification and getLineClient.                           *)
(*                                                                         *)
(* JSON / JavaScript values are records [t, s, kids]:                      *)
(*   t    the type: "undefined", "null", "string", "number", "boolean",    *)
(*        "object", "array"                                                *)
(*   s    the text of a string, number or boolean                          *)
(*   kids the members of an object, in document order, as <<key, value>>   *)
(*        pairs; the elements of an array, in order, as <<"#", value>>     *)
(*                                                                         *)
(* The source's non-ASCII literals are written in ASCII here:              *)
(*   NoName   stands for the name placeholder of line 72                   *)
(*   Unknown  stands for the placeholder of lines 73 and 74                *)
(*   NoMsg    stands for the message placeholder of line 78                *)
(*   WaveDash stands for the wave dash joining start and end (115, 118)    *)
(***************************************************************************)
EXTENDS Integers, Sequences, FiniteSets, TLC

\* ------------------------------------------------------------------------
\* JavaScript values
\* ------------------------------------------------------------------------

Undef == [t |-> "undefined", s |-> "", kids |-> <<>>]

Null == [t |-> "null", s |-> "", kids |-> <<>>]

Str(x) == [t |-> "string", s |-> x, kids |-> <<>>]

Num(x) == [t |-> "number", s |-> x, kids |-> <<>>]

Obj(members) == [t |-> "object", s |-> "", kids |-> members]

Arr(elems) == [t |-> "array", s |-> "", kids |-> elems]

\* A member list with the absent (undefined) members left out: a JSON text
\* never carries an undefined member.
Members(pairs) == SelectSeq(pairs, LAMBDA p : p[2].t # "undefined")

\* Array elements, in order, as <<"#", value>> pairs.
Elems(vals) == [i \in 1..Len(vals) |-> <<"#", vals[i]>>]

\* JavaScript truthiness, as used by ||, && and ?: (lines 69-75, 83-93, 114).
Truthy(v) ==
    CASE v.t = "undefined" -> FALSE
      [] v.t = "null"      -> FALSE
      [] v.t = "string"    -> v.s # ""
      [] v.t = "number"    -> v.s \notin {"0", "NaN"}
      [] v.t = "boolean"   -> v.s = "true"
      [] OTHER             -> TRUE

\* a || b
Or(a, b) == IF Truthy(a) THEN a ELSE b

\* v?.k : undefined on null and undefined, and on a value with no member k.
\* Of two members with one key the last one wins, as JSON.parse keeps it.
Get(v, k) ==
    IF v.t = "object" /\ \E i \in 1..Len(v.kids) : v.kids[i][1] = k
    THEN LET i == CHOOSE i \in 1..Len(v.kids) :
                      /\ v.kids[i][1] = k
                      /\ \A j \in (i+1)..Len(v.kids) : v.kids[j][1] # k
         IN  v.kids[i][2]
    ELSE Undef

\* The text JSON.stringify gives a string, between its quotes: the quote and
\* the backslash are escaped, a line feed becomes backslash n.
JsonEscape(x) ==
    CASE x = "say \"hi\""    -> "say \\\"hi\\\""
      [] x = "line1\nline2" -> "line1\\nline2"
      [] OTHER               -> x

RECURSIVE JoinStr(_, _)
JoinStr(strs, sep) ==
    IF Len(strs) = 0 THEN ""
    ELSE IF Len(strs) = 1 THEN strs[1]
    ELSE strs[1] \o sep \o JoinStr(Tail(strs), sep)

\* JSON.stringify(v) with no indentation (lines 88 and 96).
RECURSIVE Stringify(_)
Stringify(v) ==
    CASE v.t = "string" -> "\"" \o JsonEscape(v.s) \o "\""
      [] v.t = "object" ->
           "{" \o JoinStr([i \in 1..Len(v.kids) |->
                              "\"" \o JsonEscape(v.kids[i][1]) \o "\":"
                              \o Stringify(v.kids[i][2])], ",") \o "}"
      [] v.t = "array" ->
           "[" \o JoinStr([i \in 1..Len(v.kids) |->
                              Stringify(v.kids[i][2])], ",") \o "]"
      [] v.t = "undefined" -> "null"
      [] v.t = "null" -> "null"
      [] OTHER -> v.s

\* String(v), the conversion a template literal and Array.join apply.
RECURSIVE ToStr(_)
ToStr(v) ==
    CASE v.t = "undefined" -> "undefined"
      [] v.t = "null"      -> "null"
      [] v.t = "object"    -> "[object Object]"
      [] v.t = "array"     ->
           JoinStr([i \in 1..Len(v.kids) |->
                       IF v.kids[i][2].t \in {"null", "undefined"} THEN ""
                       ELSE ToStr(v.kids[i][2])], ",")
      [] OTHER             -> v.s

\* ------------------------------------------------------------------------
\* Field extraction (processAndSendNotification, lines 67-103)
\* ------------------------------------------------------------------------

NoName == "Namae nashi"

Unknown == "Fumei"

NoMsg == "Nashi"

WaveDash == "~"

\* const obj = payload?.object || payload?.data || payload        (line 69)
ObjOf(payload) == Or(Or(Get(payload, "object"), Get(payload, "data")), payload)

\* const contact = obj?.contact || obj?.guest || {}               (line 70)
ContactOf(payload) ==
    Or(Or(Get(ObjOf(payload), "contact"), Get(ObjOf(payload), "guest")), Obj(<<>>))

\* Mutant of ExtractName: the flat name is read from the payload's top level.
ExtractNameTopLevel(payload) ==
    Or(Or(Or(Get(ContactOf(payload), "name"), Get(ContactOf(payload), "lastName")),
          Get(payload, "guest_name")),
       Str(NoName))

\* const name = contact?.name || contact?.lastName || obj?.guest_name || ...
\*                                                                (line 72)
ExtractName(payload) ==
    Or(Or(Or(Get(ContactOf(payload), "name"), Get(ContactOf(payload), "lastName")),
          Get(ObjOf(payload), "guest_name")),
       Str(NoName))

\* const email = contact?.email || obj?.email || ...              (line 73)
ExtractEmail(payload) ==
    Or(Or(Get(ContactOf(payload), "email"), Get(ObjOf(payload), "email")),
       Str(Unknown))

\* const startAt = obj?.startedAt || obj?.startAt || obj?.start_at || ...
\*                                                                (line 74)
ExtractStartAt(payload) ==
    Or(Or(Or(Get(ObjOf(payload), "startedAt"), Get(ObjOf(payload), "startAt")),
          Get(ObjOf(payload), "start_at")),
       Str(Unknown))

\* const endAt = obj?.endedAt || obj?.endAt || obj?.end_at || ''  (line 75)
ExtractEndAt(payload) ==
    Or(Or(Or(Get(ObjOf(payload), "endedAt"), Get(ObjOf(payload), "endAt")),
          Get(ObjOf(payload), "end_at")),
       Str(""))

\* obj?.answers && Array.isArray(obj.answers) && obj.answers.length > 0
\*                                                                (line 83)
HasAnswers(payload) ==
    /\ Truthy(Get(ObjOf(payload), "answers"))
    /\ Get(ObjOf(payload), "answers").t = "array"
    /\ Len(Get(ObjOf(payload), "answers").kids) > 0

\* typeof a === 'object' holds of objects, arrays and null; reading a.value
\* of null raises a TypeError                                     (85-86)
EntryThrows(a) == a.t = "null"

\* One entry of the answers list, as the map callback renders it  (84-90)
RenderEntry(a) ==
    IF a.t \in {"object", "array"}
    THEN LET val      == Or(Or(Get(a, "value"), Get(a, "answer")), Get(a, "text"))
             question == Or(Or(Get(a, "title"), Get(a, "label")), Get(a, "question"))
         IN  IF Truthy(question) /\ Truthy(val)
             THEN "[" \o ToStr(question) \o "]\n" \o ToStr(val)
             ELSE IF Truthy(val) THEN ToStr(val) ELSE Stringify(a)
    ELSE ToStr(a)

\* obj.answers.map(...).join('\n\n')                              (84-91)
RenderAnswers(answers) ==
    JoinStr([i \in 1..Len(answers.kids) |-> RenderEntry(answers.kids[i][2])],
            "\n\n")

\* The members of a value in the order JSON.stringify writes them: each
\* member of an object, followed by the members inside its value.
RECURSIVE MemberList(_)
RECURSIVE MemberListFrom(_, _)
MemberListFrom(v, i) ==
    IF i > Len(v.kids) THEN <<>>
    ELSE (IF v.t = "object" THEN <<v.kids[i]>> ELSE <<>>)
         \o MemberList(v.kids[i][2]) \o MemberListFrom(v, i + 1)

MemberList(v) == IF v.t \in {"object", "array"} THEN MemberListFrom(v, 1) ELSE <<>>

\* The /i flag of the pattern of line 98: the key compared in lower case.
LowerCase(k) ==
    CASE k = "Message" -> "message"
      [] k = "Note"    -> "note"
      [] k = "MEMO"    -> "memo"
      [] k = "Comment" -> "comment"
      [] OTHER         -> k

\* ([^"]+) of line 98 over the serialized string: the escaped text up to its
\* first quote, which is the closing quote unless the text holds a quote of
\* its own (written \" by JSON.stringify, so that the capture ends with the
\* backslash).
RegexCapture(x) ==
    CASE x = "say \"hi\"" -> "say \\"
      [] OTHER             -> JsonEscape(x)

\* Whether /"(message|memo|note|comment)":\s*"([^"]+)"/i matches at a member.
\* A quote inside a string is serialized with a backslash before it, so the
\* pattern matches only at a real key, whose value is a non-empty string.
ScanMatches(m) ==
    /\ LowerCase(m[1]) \in {"message", "memo", "note", "comment"}
    /\ m[2].t = "string"
    /\ RegexCapture(m[2].s) # ""

\* strPayload.match(...): the first match in the text, match[2]   (96-101)
ScanPayload(payload) ==
    LET ms == SelectSeq(MemberList(payload), ScanMatches)
    IN  IF Len(ms) > 0 THEN Str(RegexCapture(ms[1][2].s)) ELSE Str(NoMsg)

\* Mutant of ExtractMessage: the direct message field is tried before the
\* answers list.
ExtractMessageDirectFirst(payload) ==
    IF Truthy(Get(ObjOf(payload), "message")) \/ Truthy(Get(payload, "message"))
    THEN Or(Get(ObjOf(payload), "message"), Get(payload, "message"))
    ELSE IF HasAnswers(payload)
    THEN Str(RenderAnswers(Get(ObjOf(payload), "answers")))
    ELSE ScanPayload(payload)

\* let messageText = ... (lines 78-103)
ExtractMessage(payload) ==
    IF HasAnswers(payload)
    THEN Str(RenderAnswers(Get(ObjOf(payload), "answers")))
    ELSE IF Truthy(Get(ObjOf(payload), "message")) \/ Truthy(Get(payload, "message"))
    THEN Or(Get(ObjOf(payload), "message"), Get(payload, "message"))
    ELSE ScanPayload(payload)

\* Whether field extraction raises: only the map callback can, on a null
\* entry of a non-empty answers array (lines 83-91).
ExtractThrows(payload) ==
    /\ HasAnswers(payload)
    /\ \E i \in 1..Len(Get(ObjOf(payload), "answers").kids) :
           EntryThrows(Get(ObjOf(payload), "answers").kids[i][2])

\* ------------------------------------------------------------------------
\* Time formatting and the message template (lines 105-142)
\* ------------------------------------------------------------------------

\* new Date(x) read in the Asia/Tokyo zone: the timestamps the payloads of
\* this model carry, every other text giving an invalid Date (NaN).
ParseDate(x) ==
    CASE x = "2026-03-01T10:00:00+09:00" ->
             [valid |-> TRUE, date |-> "2026/03/01", time |-> "10:00"]
      [] x = "2026-03-01T11:00:00+09:00" ->
             [valid |-> TRUE, date |-> "2026/03/01", time |-> "11:00"]
      [] x = "2026-02-27T06:00:00.000Z" ->
             [valid |-> TRUE, date |-> "2026/02/27", time |-> "15:00"]
      [] x = "2026-02-27T16:30:00.000Z" ->
             [valid |-> TRUE, date |-> "2026/02/28", time |-> "01:30"]
      [] OTHER ->
             [valid |-> FALSE, date |-> "", time |-> ""]

\* new Date(v).toLocaleString('ja-JP', dOptions): an invalid Date is not an
\* error, it formats as the text "Invalid Date"                  (113, 127)
ToLocaleString(v) ==
    IF v.t = "string" /\ ParseDate(v.s).valid
    THEN ParseDate(v.s).date \o " " \o ParseDate(v.s).time
    ELSE "Invalid Date"

\* new Date(v).toLocaleTimeString('ja-JP', {hour, minute, timeZone})
\*                                                               (114, 128)
ToLocaleTimeString(v) ==
    IF v.t = "string" /\ ParseDate(v.s).valid
    THEN ParseDate(v.s).time
    ELSE "Invalid Date"

\* Whether the try block of lines 108-115 (and 122-129) raises: neither the
\* Date constructor nor toLocaleString / toLocaleTimeString with a valid
\* locale and time zone raises on an unparseable text.
DateThrows(startAt, endAt) == FALSE

\* timeStr, lines 106-134 (the block of 107-120 is repeated at 121-134 and
\* computes the same value from startAt and endAt).
TimeStr(startAt, endAt) ==
    IF startAt = Str(Unknown) THEN ToStr(startAt)
    ELSE IF DateThrows(startAt, endAt)
    THEN ToStr(startAt) \o (IF Truthy(endAt) THEN WaveDash \o ToStr(endAt) ELSE "")
    ELSE LET startDate == ToLocaleString(startAt)
             endDate   == IF Truthy(endAt) THEN ToLocaleTimeString(endAt) ELSE ""
         IN  IF endDate # "" THEN startDate \o WaveDash \o endDate ELSE startDate

\* const textMessage = `...` (lines 137-142)
TextMessage(name, timeStr, email, messageText) ==
    "[Jicoo shinki yoyaku tsuuchi]\n"
    \o "Onamae: " \o ToStr(name) \o " sama\n"
    \o "Nichiji: " \o timeStr \o "\n"
    \o "Mail: " \o ToStr(email) \o "\n"
    \o "Message/Bikou:\n"
    \o ToStr(messageText)

\* The values the dispatcher derives from one payload (lines 69-142).
Extract(payload) ==
    [name        |-> ExtractName(payload),
     email       |-> ExtractEmail(payload),
     startAt     |-> ExtractStartAt(payload),
     endAt       |-> ExtractEndAt(payload),
     messageText |-> ExtractMessage(payload),
     timeStr     |-> TimeStr(ExtractStartAt(payload), ExtractEndAt(payload)),
     textMessage |-> TextMessage(ExtractName(payload),
                                 TimeStr(ExtractStartAt(payload), ExtractEndAt(payload)),
                                 ExtractEmail(payload),
                                 ExtractMessage(payload))]

NoFields ==
    [name |-> Undef, email |-> Undef, startAt |-> Undef, endAt |-> Undef,
     messageText |-> Undef, timeStr |-> "", textMessage |-> ""]

\* ------------------------------------------------------------------------
\* Request bodies
\* ------------------------------------------------------------------------

\* The longest answers list of the payloads.
MaxAnswers == 2

\* A field that is absent or holds one of the texts xs.
OptStr(xs) == {Undef} \cup {Str(x) : x \in xs}

\* A payload with its booking fields flat at the top level ("none") or
\* inside a wrapper object under the key w, followed by the flat top-level
\* members the interface JicooWebhookPayload allows beside the wrapper.
Wrap(w, inner, top) ==
    IF w = "none"
    THEN Obj(<< <<"event", Str("booking.created")>> >> \o inner)
    ELSE Obj(<< <<"event", Str("booking.created")>>, <<w, Obj(inner)>> >> \o top)

\* The body testWebhook.sh posts.
TestWebhookPayload ==
    Obj(<< <<"event", Str("booking.created")>>,
           <<"data", Obj(<< <<"guest", Obj(<< <<"name", Str("Yamada Taro")>>,
                                              <<"email", Str("yamada@example.com")>> >>)>>,
                            <<"start_at", Str("2026-03-01T10:00:00+09:00")>>,
                            <<"end_at", Str("2026-03-01T11:00:00+09:00")>>,
                            <<"message", Str("Yoroshiku onegai itashimasu.")>> >>)>> >>)

Contacts ==
    {Undef} \cup
    { Obj(Members(<< <<"name", n>>, <<"lastName", l>>, <<"email", e>> >>)) :
        n \in OptStr({"", "Taro"}),
        l \in OptStr({"Yamada"}),
        e \in OptStr({"contact@example.com"}) }

Guests ==
    { Undef,
      Obj(<< <<"name", Str("Hanako")>>, <<"email", Str("guest@example.com")>> >>) }

\* Payloads that vary where the guest's name and email are found.
NamePayloads ==
    { Wrap(w,
           Members(<< <<"contact", c>>, <<"guest", g>>,
                      <<"guest_name", gn>>, <<"email", em>> >>),
           Members(<< <<"guest_name", tn>> >>)) :
        w  \in {"none", "data", "object"},
        c  \in Contacts,
        g  \in Guests,
        gn \in OptStr({"Inner Name"}),
        em \in OptStr({"flat@example.com"}),
        tn \in OptStr({"Top Name"}) }

\* Payloads that vary the start and end times: parseable timestamps, texts
\* that are no timestamp, the empty text, under each spelling of the key.
TimePayloads ==
    { Wrap(w,
           Members(<< <<"startedAt", s1>>, <<"startAt", s2>>, <<"start_at", s3>>,
                      <<"endedAt", e1>>, <<"endAt", e2>>, <<"end_at", e3>> >>),
           <<>>) :
        w  \in {"none", "data"},
        s1 \in OptStr({"", "2026-02-27T06:00:00.000Z", "next tuesday"}),
        s2 \in OptStr({"2026/13/45 25:00"}),
        s3 \in OptStr({"2026-02-27T16:30:00.000Z"}),
        e1 \in OptStr({"2026-03-01T11:00:00+09:00", "later"}),
        e2 \in OptStr({"noon"}),
        e3 \in OptStr({"2026-03-01T10:00:00+09:00"}) }

\* The entries an answers list is made of.
Entries ==
    { Null,
      Str("free text"),
      Obj(<< <<"title", Str("Q1")>>, <<"value", Str("A1")>> >>),
      Obj(<< <<"label", Str("Q2")>>, <<"answer", Str("A2")>> >>),
      Obj(<< <<"text", Str("A3")>> >>),
      Obj(<< <<"question", Str("Q4")>>, <<"value", Str("")>> >>) }

RECURSIVE SeqsUpTo(_, _)
SeqsUpTo(S, n) ==
    IF n = 0 THEN {<<>>}
    ELSE SeqsUpTo(S, n - 1)
         \cup {Append(q, x) : q \in {r \in SeqsUpTo(S, n - 1) : Len(r) = n - 1}, x \in S}

\* The answers member: absent, an empty list, a text, a list of one entry.
ShortAnswers ==
    {Undef, Arr(<<>>), Str("n/a")} \cup {Arr(Elems(<<x>>)) : x \in Entries}

\* Every answers list of at most MaxAnswers entries.
AnswerLists == {Arr(Elems(q)) : q \in SeqsUpTo(Entries, MaxAnswers)}

\* Payloads that vary the sources of the free text: the answers list, the
\* nested and the top-level message, and the members the scan of line 98
\* can find (a memo beside the wrapper, a note deeper inside).
MessagePayloads ==
    { Wrap(w,
           Members(<< <<"answers", a>>, <<"message", m>>, <<"extra", x>> >>),
           Members(<< <<"message", tm>>, <<"MEMO", memo>> >>)) :
        w    \in {"data", "object"},
        a    \in ShortAnswers,
        m    \in OptStr({"", "Nested message"}) \cup {Num("0")},
        x    \in {Undef, Obj(<< <<"Note", Str("Deep note")>> >>)},
        tm   \in OptStr({"Top message"}),
        memo \in OptStr({"Memo text", "say \"hi\"", "line1\nline2"}) }
    \cup
    { Wrap("none",
           Members(<< <<"answers", a>>, <<"message", m>>, <<"extra", x>>,
                      <<"comment", memo>> >>),
           <<>>) :
        a    \in ShortAnswers,
        m    \in OptStr({"", "Flat message"}),
        x    \in {Undef, Obj(<< <<"Note", Str("Deep note")>> >>)},
        memo \in OptStr({"Comment text", "say \"hi\""}) }
    \cup
    { Wrap(w, Members(<< <<"answers", a>>, <<"message", m>> >>), <<>>) :
        w \in {"none", "data"},
        a \in AnswerLists,
        m \in OptStr({"Nested message"}) }

\* JSON texts that are no object.
ScalarPayloads == {Null, Str("hello"), Num("0"), Arr(<<>>)}

Payloads ==
    {TestWebhookPayload} \cup NamePayloads \cup TimePayloads
    \cup MessagePayloads \cup ScalarPayloads

\* A request body: a JSON text (parsed is TRUE, value what it decodes to) or
\* a text that is no JSON.
Bodies ==
    {[parsed |-> FALSE, value |-> Undef]}
    \cup {[parsed |-> TRUE, value |-> p] : p \in Payloads}

\* process.env.LINE_CHANNEL_ACCESS_TOKEN, process.env.LINE_ADMIN_USER_ID:
\* unset, set to the empty text, or set.
Envs ==
    [token : OptStr({"", "channel-token"}), admin : OptStr({"", "U-admin"})]

\* ------------------------------------------------------------------------
\* The request handler
\* ------------------------------------------------------------------------

VARIABLES
    env,          \* process.env: the access token and the recipient id
    pc,           \* where the handler of the current request stands
    body,         \* the body of the current request
    payload,      \* what request.json() decoded (line 38)
    fields,       \* the values the dispatcher derived (lines 69-142)
    events,       \* what the current request did so far, in order
    sent,         \* the argument of the pushMessage call (lines 147-155)
    caughtInner,  \* what the catch of line 157 caught
    caughtOuter,  \* what the catch of line 47 caught
    response      \* the response POST returned

vars == <<env, pc, body, payload, fields, events, sent, caughtInner,
          caughtOuter, response>>

NoResponse == [status |-> 0, body |-> ""]

NoPush == [to |-> Undef, text |-> ""]

\* NextResponse.json({status: 'success', ...}, {status: 200})      (line 46)
SuccessResponse == [status |-> 200, body |-> "success"]

\* NextResponse.json({status: 'error', ...}, {status: 500})        (line 51)
ErrorResponse == [status |-> 500, body |-> "error"]

\* !adminUserId (line 58) and !channelAccessToken (line 7): unset or empty.
IsSet(v) == Truthy(v)

Count(e) == Cardinality({i \in 1..Len(events) : events[i] = e})

Init ==
    /\ env \in Envs
    /\ pc = "idle"
    /\ body = [parsed |-> FALSE, value |-> Undef]
    /\ payload = Undef
    /\ fields = NoFields
    /\ events = <<>>
    /\ sent = NoPush
    /\ caughtInner = "none"
    /\ caughtOuter = "none"
    /\ response = NoResponse

\* A webhook delivery arrives: POST is entered with a request of its own.
Receive ==
    /\ pc = "idle"
    /\ body' \in Bodies
    /\ pc' = "json"
    /\ UNCHANGED <<env, payload, fields, events, sent, caughtInner,
                   caughtOuter, response>>

\* await request.json() (line 38): a body that is no JSON raises, and the
\* catch of line 47 takes it.
ParseJson ==
    /\ pc = "json"
    /\ IF body.parsed
       THEN /\ payload' = body.value
            /\ pc' = "dispatch"
            /\ UNCHANGED caughtOuter
       ELSE /\ pc' = "catch"
            /\ caughtOuter' = "json"
            /\ UNCHANGED payload
    /\ UNCHANGED <<env, body, fields, events, sent, caughtInner, response>>

\* Mutant of CheckAdmin: only an unset recipient id is skipped, an empty one
\* is not.
CheckAdminUnsetOnly ==
    /\ pc = "dispatch"
    /\ pc' = IF env.admin.t = "undefined" THEN "respond" ELSE "extract"
    /\ UNCHANGED <<env, body, payload, fields, events, sent, caughtInner,
                   caughtOuter, response>>

\* processAndSendNotification, lines 57-61: with no recipient id the
\* dispatcher logs and returns.
CheckAdmin ==
    /\ pc = "dispatch"
    /\ pc' = IF ~IsSet(env.admin) THEN "respond" ELSE "extract"
    /\ UNCHANGED <<env, body, payload, fields, events, sent, caughtInner,
                   caughtOuter, response>>

\* Lines 63-142: the fields and the message text. An exception raised here
\* leaves the dispatcher and is taken by the catch of line 47.
ExtractFields ==
    /\ pc = "extract"
    /\ IF ExtractThrows(payload)
       THEN /\ pc' = "catch"
            /\ caughtOuter' = "extract"
            /\ UNCHANGED fields
       ELSE /\ pc' = "client"
            /\ fields' = Extract(payload)
            /\ UNCHANGED caughtOuter
    /\ UNCHANGED <<env, body, payload, events, sent, caughtInner, response>>

\* Mutant of GetClient: the missing token's error leaves the dispatcher and
\* reaches the catch of line 47.
GetClientPropagates ==
    /\ pc = "client"
    /\ IF ~IsSet(env.token)
       THEN /\ pc' = "catch"
            /\ caughtOuter' = "client"
            /\ UNCHANGED caughtInner
       ELSE /\ pc' = "push"
            /\ UNCHANGED <<caughtInner, caughtOuter>>
    /\ UNCHANGED <<env, body, payload, fields, events, sent, response>>

\* const client = getLineClient() (line 146, lines 5-13): with no access
\* token it raises inside the try of line 145, whose catch (157) logs it.
GetClient ==
    /\ pc = "client"
    /\ IF ~IsSet(env.token)
       THEN /\ pc' = "respond"
            /\ caughtInner' = "client"
       ELSE /\ pc' = "push"
            /\ UNCHANGED caughtInner
    /\ UNCHANGED <<env, body, payload, fields, events, sent, caughtOuter,
                   response>>

\* client.pushMessage({to, messages}) is called (lines 147-155) and awaited.
PushStart ==
    /\ pc = "push"
    /\ events' = Append(events, "push_start")
    /\ sent' = [to |-> env.admin, text |-> fields.textMessage]
    /\ pc' = "await"
    /\ UNCHANGED <<env, body, payload, fields, caughtInner, caughtOuter, response>>

\* The awaited call resolves (line 156).
PushOk ==
    /\ pc = "await"
    /\ events' = Append(events, "push_ok")
    /\ pc' = "respond"
    /\ UNCHANGED <<env, body, payload, fields, sent, caughtInner, caughtOuter,
                   response>>

\* Mutant of PushFail: the failure of the call is thrown on to the caller.
PushFailPropagates ==
    /\ pc = "await"
    /\ events' = Append(events, "push_fail")
    /\ caughtOuter' = "push"
    /\ pc' = "catch"
    /\ UNCHANGED <<env, body, payload, fields, sent, caughtInner, response>>

\* Mutant of PushFail: a failed call is tried once more.
PushFailRetries ==
    /\ pc = "await"
    /\ events' = Append(events, "push_fail")
    /\ caughtInner' = "push"
    /\ pc' = IF Count("push_start") < 2 THEN "push" ELSE "respond"
    /\ UNCHANGED <<env, body, payload, fields, sent, caughtOuter, response>>

\* The awaited call rejects (authentication, network): the catch of line
\* 157 logs it.
PushFail ==
    /\ pc = "await"
    /\ events' = Append(events, "push_fail")
    /\ caughtInner' = "push"
    /\ pc' = "respond"
    /\ UNCHANGED <<env, body, payload, fields, sent, caughtOuter, response>>

\* Mutant of RespondSuccess: a failed delivery is reported to the sender.
RespondSuccessReportsDelivery ==
    /\ pc = "respond"
    /\ response' = IF Count("push_fail") > 0 THEN ErrorResponse ELSE SuccessResponse
    /\ events' = Append(events, "response")
    /\ pc' = "done"
    /\ UNCHANGED <<env, body, payload, fields, sent, caughtInner, caughtOuter>>

\* Mutant of RespondSuccess: the dispatcher's push is not awaited.
RespondSuccessNoAwait ==
    /\ pc \in {"respond", "await"}
    /\ response' = SuccessResponse
    /\ events' = Append(events, "response")
    /\ pc' = "done"
    /\ UNCHANGED <<env, body, payload, fields, sent, caughtInner, caughtOuter>>

\* The dispatcher returned: POST answers 200 (line 46).
RespondSuccess ==
    /\ pc = "respond"
    /\ response' = SuccessResponse
    /\ events' = Append(events, "response")
    /\ pc' = "done"
    /\ UNCHANGED <<env, body, payload, fields, sent, caughtInner, caughtOuter>>

\* Mutant of RespondError: the catch answers 200, which its comment (49-50)
\* names as the other choice.
RespondErrorAs200 ==
    /\ pc = "catch"
    /\ response' = SuccessResponse
    /\ events' = Append(events, "response")
    /\ pc' = "done"
    /\ UNCHANGED <<env, body, payload, fields, sent, caughtInner, caughtOuter>>

\* The catch of POST (lines 47-52) answers 500.
RespondError ==
    /\ pc = "catch"
    /\ response' = ErrorResponse
    /\ events' = Append(events, "response")
    /\ pc' = "done"
    /\ UNCHANGED <<env, body, payload, fields, sent, caughtInner, caughtOuter>>

\* The request is over: its payload and message are discarded, nothing is
\* kept for the next delivery.
Finish ==
    /\ pc = "done"
    /\ pc' = "idle"
    /\ body' = [parsed |-> FALSE, value |-> Undef]
    /\ payload' = Undef
    /\ fields' = NoFields
    /\ events' = <<>>
    /\ sent' = NoPush
    /\ caughtInner' = "none"
    /\ caughtOuter' = "none"
    /\ response' = NoResponse
    /\ UNCHANGED env

Next ==
    \/ Receive
    \/ ParseJson
    \/ CheckAdmin
    \/ ExtractFields
    \/ GetClient
    \/ PushStart
    \/ PushOk
    \/ PushFail
    \/ RespondSuccess
    \/ RespondError
    \/ Finish

Spec == Init /\ [][Next]_vars

\* ------------------------------------------------------------------------
\* Properties
\* ------------------------------------------------------------------------

AdminSet == IsSet(env.admin)

TokenSet == IsSet(env.token)

Pushes == Count("push_start")

\* The dispatcher derived its fields from the payload (lines 69-142 ran).
Extracted == fields # NoFields

\* C1: when the body decodes and both the recipient id and the access token
\* are configured, a failed push call is caught by the dispatcher's own
\* catch, never reaches the catch of POST, and the response is 200 'success'.
C1_PushFailureSwallowed ==
    (body.parsed /\ AdminSet /\ TokenSet /\ Count("push_fail") > 0) =>
        /\ caughtInner = "push"
        /\ caughtOuter = "none"
        /\ pc \in {"respond", "done"}
        /\ (pc = "done" => response = SuccessResponse)

C1_Witness ==
    /\ pc = "done"
    /\ AdminSet /\ TokenSet
    /\ Count("push_fail") = 1
    /\ response = SuccessResponse

\* C2: with no recipient id configured, whatever JSON the body decodes to,
\* no push call is attempted, no exception reaches either catch, the
\* dispatcher returns at once and the response is 200 'success'.
C2_NoRecipientSkips ==
    (~AdminSet /\ body.parsed) =>
        /\ Pushes = 0
        /\ sent = NoPush
        /\ caughtInner = "none"
        /\ caughtOuter = "none"
        /\ pc \in {"json", "dispatch", "respond", "done"}
        /\ (pc = "done" => response = SuccessResponse)

\* A payload whose extraction would raise is answered 200 with an empty
\* recipient id: extraction is never reached.
C2_Witness ==
    /\ pc = "done"
    /\ env.admin = Str("")
    /\ TokenSet
    /\ ExtractThrows(payload)
    /\ response = SuccessResponse
    /\ Pushes = 0

\* C3: a body that is no JSON is answered 500 with status field 'error',
\* whatever the configuration; nothing of the dispatcher runs.
C3_MalformedBodyIs500 ==
    (~body.parsed /\ pc \notin {"idle", "json"}) =>
        /\ pc \in {"catch", "done"}
        /\ caughtOuter = "json"
        /\ Pushes = 0
        /\ (pc = "done" => response = ErrorResponse)

C3_Witness ==
    /\ pc = "done"
    /\ ~body.parsed
    /\ AdminSet /\ TokenSet
    /\ response = ErrorResponse

\* C4 as stated: with no access token (recipient id configured, body
\* decoded) the response is a 500 error response.
C4_Original ==
    (~TokenSet /\ AdminSet /\ body.parsed /\ pc = "done") =>
        response.status = 500

\* C4 amended: with no access token (recipient id configured, body decoded)
\* the error of client construction is caught by the dispatcher's own catch
\* around the send, not by the catch of POST; no push call is issued and
\* the response is 200 'success'. A 500 in this configuration comes only
\* from field extraction raising, before the client is constructed.
C4_MissingTokenSwallowed ==
    /\ (~TokenSet /\ AdminSet /\ body.parsed /\ Extracted
            /\ pc \in {"respond", "done"}) =>
           /\ caughtInner = "client"
           /\ caughtOuter = "none"
           /\ Pushes = 0
           /\ (pc = "done" => response = SuccessResponse)
    /\ (~TokenSet /\ AdminSet /\ body.parsed
            /\ (response.status = 500 \/ pc = "catch")) =>
           /\ caughtOuter = "extract"
           /\ caughtInner = "none"
           /\ ~Extracted

C4_Witness ==
    /\ pc = "done"
    /\ ~TokenSet /\ AdminSet
    /\ caughtInner = "client"
    /\ response = SuccessResponse

\* C5 as stated: with a recipient id configured, a dispatcher that has
\* returned has issued exactly one push call.
C5_Original ==
    (AdminSet /\ body.parsed /\ pc \in {"respond", "done"}
        /\ caughtOuter = "none") => Pushes = 1

\* C5 amended: with a recipient id configured, the dispatcher issues at most
\* one push call; once it has returned or raised it has issued exactly one
\* if the access token is configured and field extraction did not raise,
\* and none otherwise.
C5_PushCount ==
    /\ Pushes <= 1
    /\ (AdminSet /\ body.parsed /\ pc \in {"respond", "catch", "done"}) =>
           Pushes = (IF TokenSet /\ caughtOuter = "none" THEN 1 ELSE 0)

C5_Witness ==
    /\ pc = "respond"
    /\ AdminSet /\ TokenSet
    /\ events = <<"push_start", "push_ok">>

\* C6: a request issues at most one push call; the response comes only
\* after that call has settled (no response while a call is outstanding),
\* and nothing, so no push call, follows the response.
C6_PushAwaitedBeforeResponse ==
    /\ Pushes <= 1
    /\ (response # NoResponse) = (Count("response") = 1)
    /\ \A i \in 1..Len(events) :
           events[i] = "response" =>
               /\ i = Len(events)
               /\ Pushes = Count("push_ok") + Count("push_fail")
    /\ \A i \in 1..Len(events) :
           events[i] \in {"push_ok", "push_fail"} =>
               i > 1 /\ events[i - 1] = "push_start"

C6_Witness ==
    /\ pc = "done"
    /\ events = <<"push_start", "push_ok", "response">>
    /\ response = SuccessResponse

\* C7: whenever the start time is present but is no timestamp, the time
\* section is the raw start text, followed by the wave dash and the raw end
\* text when an end time is present.
C7_RawTimeFallback ==
    (Extracted /\ fields.startAt # Str(Unknown)
        /\ ~ParseDate(fields.startAt.s).valid) =>
        fields.timeStr =
            fields.startAt.s
            \o (IF fields.endAt # Str("") THEN WaveDash \o fields.endAt.s ELSE "")

\* "The nested guest-object name" of C8, read in the claim's favour: the
\* guest object's name or, when that is empty, its lastName.
NestedGuestName(p) ==
    IF Truthy(Get(ContactOf(p), "name")) THEN Get(ContactOf(p), "name")
    ELSE Get(ContactOf(p), "lastName")

\* C8 as stated: the name is the nested guest object's name if non-empty,
\* otherwise a non-empty flat name field, otherwise the placeholder; and a
\* payload whose only name is the top-level name field yields that name,
\* also when a wrapper object is present.
C8_Original ==
    Extracted =>
        /\ fields.name =
               (IF Truthy(NestedGuestName(payload)) THEN NestedGuestName(payload)
                ELSE IF Truthy(Get(ObjOf(payload), "guest_name"))
                THEN Get(ObjOf(payload), "guest_name")
                ELSE IF Truthy(Get(payload, "guest_name"))
                THEN Get(payload, "guest_name")
                ELSE Str(NoName))
        /\ (/\ ~Truthy(NestedGuestName(payload))
            /\ ~Truthy(Get(ObjOf(payload), "guest_name"))
            /\ Truthy(Get(payload, "guest_name"))) =>
               fields.name = Get(payload, "guest_name")

\* C8 amended: the name is the guest object's name if non-empty, otherwise
\* the guest object's lastName if non-empty, otherwise the guest_name field
\* of the object the booking fields are read from (payload.object, else
\* payload.data, else the payload itself) if non-empty, otherwise the
\* placeholder; a top-level guest_name beside a wrapper object is not read.
C8_NameFallback ==
    Extracted =>
        LET o == IF Truthy(Get(payload, "object")) THEN Get(payload, "object")
                 ELSE IF Truthy(Get(payload, "data")) THEN Get(payload, "data")
                 ELSE payload
            g == IF Truthy(Get(o, "contact")) THEN Get(o, "contact")
                 ELSE Get(o, "guest")
        IN  fields.name =
                (IF Truthy(Get(g, "name")) THEN Get(g, "name")
                 ELSE IF Truthy(Get(g, "lastName")) THEN Get(g, "lastName")
                 ELSE IF Truthy(Get(o, "guest_name")) THEN Get(o, "guest_name")
                 ELSE Str(NoName))

\* A top-level name beside a wrapper that holds no name: the placeholder.
C8_Witness ==
    /\ Extracted
    /\ Truthy(Get(payload, "data"))
    /\ Get(payload, "guest_name") = Str("Top Name")
    /\ fields.name = Str(NoName)

\* The answers list is present and empty.
EmptyAnswers(p) ==
    /\ Get(ObjOf(p), "answers").t = "array"
    /\ Len(Get(ObjOf(p), "answers").kids) = 0

\* C9 as stated: the free text is (a) the rendered answers list when it is
\* present and non-empty, otherwise (b) the direct message field at the
\* nested or the top-level location, otherwise (c) the first match of the
\* scan of the serialized payload, otherwise (d) the placeholder; and with
\* an empty answers list and a top-level message field present, the free
\* text is that field's value.
C9_Original ==
    Extracted =>
        /\ IF HasAnswers(payload)
           THEN fields.messageText = Str(RenderAnswers(Get(ObjOf(payload), "answers")))
           ELSE IF Truthy(Get(ObjOf(payload), "message")) \/ Truthy(Get(payload, "message"))
           THEN /\ Truthy(fields.messageText)
                /\ fields.messageText \in
                       {Get(ObjOf(payload), "message"), Get(payload, "message")}
           ELSE fields.messageText = ScanPayload(payload)
        /\ (EmptyAnswers(payload) /\ Truthy(Get(payload, "message"))) =>
               fields.messageText = Get(payload, "message")

\* C9 amended: the same priority order, where in (b) the nested message (of
\* the wrapper object) comes before the top-level one; with an empty
\* answers list and a top-level message field present, the free text is
\* that field's value unless the wrapper object holds a non-empty message
\* of its own, which is then the free text.
C9_MessagePriority ==
    Extracted =>
        /\ IF HasAnswers(payload)
           THEN fields.messageText = Str(RenderAnswers(Get(ObjOf(payload), "answers")))
           ELSE IF Truthy(Get(ObjOf(payload), "message"))
           THEN fields.messageText = Get(ObjOf(payload), "message")
           ELSE IF Truthy(Get(payload, "message"))
           THEN fields.messageText = Get(payload, "message")
           ELSE fields.messageText = ScanPayload(payload)
        /\ (EmptyAnswers(payload) /\ Truthy(Get(payload, "message"))) =>
               fields.messageText =
                   (IF Truthy(Get(ObjOf(payload), "message"))
                    THEN Get(ObjOf(payload), "message")
                    ELSE Get(payload, "message"))

\* An empty answers list, a nested and a different top-level message: the
\* nested one is the free text.
C9_Witness ==
    /\ Extracted
    /\ EmptyAnswers(payload)
    /\ Get(payload, "message") = Str("Top message")
    /\ Get(ObjOf(payload), "message") = Str("Nested message")
    /\ fields.messageText = Str("Nested message")

\* C10: a 500 response implies that the request issued no push call: what
\* reaches the catch of POST (a body that is no JSON, an exception of field
\* extraction) happens before the call, and once the call is issued the
\* catch of POST is never entered.
C10_ErrorImpliesNoPush ==
    /\ (response.status = 500 \/ pc = "catch") =>
           /\ Pushes = 0
           /\ sent = NoPush
           /\ caughtOuter \in {"json", "extract"}
    /\ Pushes > 0 =>
           /\ pc \notin {"catch"}
           /\ caughtOuter = "none"
           /\ response.status # 500

\* A null entry in the answers list, with both values configured: 500 and
\* no push call.
C10_Witness ==
    /\ pc = "done"
    /\ response = ErrorResponse
    /\ caughtOuter = "extract"
    /\ AdminSet /\ TokenSet
    /\ Pushes = 0

====
